---- MODULE Spec2Model ----
(***************************************************************************)
(* GridWorldEnv (trial_04_custom_env.py): a size x size grid, an agent and *)
(* a target position, reset() drawing both positions from the environment's*)
(* random generator and step(action) moving the agent with clamping.       *)
(*                                                                         *)
(* Positions are pairs <<x, y>>.  An Optional[int] argument is a sequence  *)
(* of length <= 1: <<>> is None, <<s>> is the integer s.                   *)
(*                                                                         *)
(* The two position fields are bound to numpy array objects.  heap gives   *)
(* the contents of the array objects by identity, agent_id and target_id   *)
(* the identities the two fields are bound to, obs_ids the identities the  *)
(* observation of the last returned tuple refers to, and held_ids those of *)
(* an observation its caller has kept.  An array nothing refers to any     *)
(* more gives its identity back.                                           *)
(*                                                                         *)
(* The random generator self.np_random is one of                           *)
(*   kind "unset"   : never created (self._np_random is None),             *)
(*   kind "entropy" : created lazily from OS entropy; nothing observable   *)
(*                    determines its draws, so every draw is a free choice,*)
(*   kind "seeded"  : created by reset(seed=s); its draws are a function   *)
(*                    of its state word w alone.  The bit generator itself *)
(*                    is stood for by a full-period congruential generator *)
(*                    on RngMod words.                                     *)
(***************************************************************************)
EXTENDS Integers, Sequences, FiniteSets, TLC

VARIABLES size, _agent_location, _target_location, np_random,
          pc, call, ret, reset_returned, seed_log,
          heap, agent_id, target_id, obs_ids, held_ids

vars == <<size, _agent_location, _target_location, np_random,
          pc, call, ret, reset_returned, seed_log,
          heap, agent_id, target_id, obs_ids, held_ids>>

(* ------------------------------ bounds -------------------------------- *)
\* largest grid side length explored
MaxSize == 4
\* largest seed value passed to reset
MaxSeed == 1
\* integers just outside the action table on either side, passed to step
ActionSlack == 1
\* the count of rejection-loop iterations of one reset saturates here
DrawsCap == 2
\* negative integers, down to this many below zero, passed to reset as seed
SeedSlack == 1
\* array identities available
HeapSize == 5
\* largest grid side length explored while a caller keeps observations
AliasMaxSize == 2

(* ----------------------- generator stand-in --------------------------- *)
RngMod == 16
RngMul == 5
RngInc == 3
SeedMul == 7
SeedInc == 2

(* ------------------------------ inputs -------------------------------- *)
Sizes == 1..MaxSize
Seeds == 0..MaxSeed
SeedArgs == {<<>>} \cup {<<s>> : s \in Seeds}
SeedInputs == SeedArgs \cup {<<0 - s>> : s \in 1..SeedSlack}
Actions == 0..3
ActionInputs == (0 - ActionSlack)..(3 + ActionSlack)

\* np.array([-1, -1], dtype=np.int32)
Sentinel == <<-1, -1>>

Abs(n) == IF n < 0 THEN 0 - n ELSE n

(* --------------------------- __init__ tables -------------------------- *)
\* self._action_to_direction: a dict with exactly the keys 0..3
_action_to_direction_default == [a \in ActionInputs |->
    CASE a = 1 -> <<0, 1>>
      [] a = 2 -> <<-1, 0>>
      [] a = 3 -> <<0, -1>>
      [] OTHER -> <<1, 0>>]

_action_to_direction_diagonal == [a \in Actions |->
    CASE a = 0 -> <<1, 0>>
      [] a = 1 -> <<1, 1>>
      [] a = 2 -> <<-1, 0>>
      [] a = 3 -> <<0, -1>>]

_action_to_direction == [a \in Actions |->
    CASE a = 0 -> <<1, 0>>
      [] a = 1 -> <<0, 1>>
      [] a = 2 -> <<-1, 0>>
      [] a = 3 -> <<0, -1>>]

(* ----------------------------- numpy ---------------------------------- *)
\* np.clip(v, lo, hi), elementwise on a pair
np_clip_lower_only(v, lo, hi) == [i \in 1..2 |-> IF v[i] < lo THEN lo ELSE v[i]]

np_clip(v, lo, hi) == [i \in 1..2 |->
    IF v[i] < lo THEN lo ELSE IF v[i] > hi THEN hi ELSE v[i]]

\* np.array_equal(a, b) on pairs
array_equal_first_only(a, b) == a[1] = b[1]

array_equal(a, b) == a[1] = b[1] /\ a[2] = b[2]

\* np.linalg.norm(v, ord=1) on a pair of integers
norm_inf(v) == IF Abs(v[1]) > Abs(v[2]) THEN Abs(v[1]) ELSE Abs(v[2])

norm_ord1(v) == Abs(v[1]) + Abs(v[2])

(* ------------------------ observation and info ------------------------ *)
_get_obs(agent, target) == [agent |-> agent, target |-> target]

_get_info(agent, target) ==
    [distance |-> norm_ord1(<<agent[1] - target[1], agent[2] - target[2]>>)]

(* --------------------------- returned tuple --------------------------- *)
\* what the last call handed back to its caller; op "none" while no call
\* has returned on this instance or a reset is still running
NoRet == [op |-> "none", err |-> "none", obs |-> _get_obs(Sentinel, Sentinel),
          reward |-> 0, terminated |-> FALSE, truncated |-> FALSE,
          info |-> [distance |-> 0]]

\* the call in progress or last made: its arguments, for reset how many
\* times the loop body has run (saturating at DrawsCap) and whether a reset
\* with the same seed had returned before, and for step the agent position
\* the call started from
NoCall == [op |-> "none", action |-> 0, seed |-> <<>>, draws |-> 0,
           seed_seen |-> FALSE, agent_before |-> Sentinel]

(* -------------------------- random generator -------------------------- *)
Unset == [kind |-> "unset", w |-> 0]
Entropy == [kind |-> "entropy", w |-> 0]
Seeded(w) == [kind |-> "seeded", w |-> w]

\* seeding.np_random(seed): the generator state a seed determines
SeedWord(s) == (SeedMul * s + SeedInc) % RngMod

\* one raw draw: the next state word, and the value in 0..n-1 it yields
RngNext(w) == (RngMul * w + RngInc) % RngMod
RngValue(w, n) == (w * n) \div RngMod

\* seeding.np_random(seed), reached from super().reset(seed=seed): an integer
\* seed below zero is refused with gymnasium.error.Error
seed_valid_unchecked(seed) == TRUE

seed_valid(seed) == IF seed = <<>> THEN TRUE ELSE seed[1] >= 0

\* super().reset(seed=seed): reseed only when a seed is given
super_reset_ignores_seed(rng, seed) == rng

super_reset(rng, seed) ==
    IF seed # <<>> THEN Seeded(SeedWord(seed[1])) ELSE rng

\* the np_random property: create the generator from entropy on first use
np_random_get(rng) == IF rng.kind = "unset" THEN Entropy ELSE rng

\* self.np_random.integers(0, n, size=2): the possible outcomes, each the
\* pair drawn and the generator afterwards
integers(rng, n) ==
    LET g == np_random_get(rng) IN
    IF g.kind = "seeded"
    THEN LET w1 == RngNext(g.w)
             w2 == RngNext(w1)
         IN  {[val |-> <<RngValue(w1, n), RngValue(w2, n)>>, rng |-> Seeded(w2)]}
    ELSE {[val |-> <<x, y>>, rng |-> g] : x \in 0..(n - 1), y \in 0..(n - 1)}

(* --------------------------- array objects ---------------------------- *)
ObjIds == 1..HeapSize

\* the identities a pair of references (or no pair) refers to
Refs(ids) == {ids[i] : i \in 1..Len(ids)}

\* a newly created array: the least identity no array in use has
Fresh(in_use) == CHOOSE i \in ObjIds \ in_use : \A j \in ObjIds \ in_use : i <= j

\* the heap with the arrays nothing refers to dropped
Tidy(h, in_use) == [i \in ObjIds |-> IF i \in in_use THEN h[i] ELSE Sentinel]

\* np.clip(...) without out= returns a new array; old is the array the
\* field was bound to
clip_result_id_inplace(old, in_use) == old

clip_result_id(old, in_use) == Fresh(in_use)

(* ------------------------------- state -------------------------------- *)
TypeOK ==
    /\ size \in Sizes
    /\ _agent_location \in (-1..(size - 1)) \X (-1..(size - 1))
    /\ _target_location \in (-1..(size - 1)) \X (-1..(size - 1))
    /\ np_random.kind \in {"unset", "entropy", "seeded"}
    /\ np_random.w \in 0..(RngMod - 1)
    /\ pc \in {"idle", "reset_loop"}
    /\ call.op \in {"none", "reset", "step"}
    /\ call.draws \in 0..DrawsCap
    /\ ret.op \in {"none", "reset", "step"}
    /\ reset_returned \in BOOLEAN
    /\ \A s \in Seeds : Len(seed_log[s]) <= 1
    /\ agent_id \in ObjIds
    /\ target_id \in ObjIds
    /\ Refs(obs_ids) \subseteq {agent_id, target_id}
    /\ Refs(held_ids) \subseteq ObjIds
    /\ heap[agent_id] = _agent_location
    /\ heap[target_id] = _target_location

\* GridWorldEnv(size): no validation of size, positions at the sentinel
Init ==
    /\ size \in Sizes
    /\ _agent_location = Sentinel
    /\ _target_location = Sentinel
    /\ np_random = Unset
    /\ pc = "idle"
    /\ call = NoCall
    /\ ret = NoRet
    /\ reset_returned = FALSE
    /\ seed_log = [s \in Seeds |-> <<>>]
    /\ heap = [i \in ObjIds |-> Sentinel]
    /\ agent_id = 1
    /\ target_id = 2
    /\ obs_ids = <<>>
    /\ held_ids = <<>>

\* a further instance of the same size replaces the one under study
__init__ ==
    /\ pc = "idle"
    /\ call.op # "none"
    /\ _agent_location' = Sentinel
    /\ _target_location' = Sentinel
    /\ np_random' = Unset
    /\ call' = NoCall
    /\ ret' = NoRet
    /\ reset_returned' = FALSE
    /\ LET a == Fresh(Refs(held_ids))
           t == Fresh(Refs(held_ids) \cup {a})
       IN  /\ agent_id' = a
           /\ target_id' = t
           /\ heap' = Tidy([heap EXCEPT ![a] = Sentinel, ![t] = Sentinel],
                           Refs(held_ids) \cup {a, t})
    /\ obs_ids' = <<>>
    /\ UNCHANGED <<size, pc, seed_log, held_ids>>

(* ------------------------------- reset -------------------------------- *)
\* whether a reset with this seed has returned before, on any instance
SeedSeen(log, seed) ==
    IF seed = <<>> THEN FALSE
    ELSE IF seed[1] \notin DOMAIN log THEN FALSE
    ELSE log[seed[1]] # <<>>

\* lines 78-84: reseed, draw the agent, alias the target to the agent
reset_begin(seed) ==
    /\ pc = "idle"
    /\ seed_valid(seed)
    /\ \E d \in integers(super_reset(np_random, seed), size) :
          LET a == Fresh(Refs(held_ids))
          IN  /\ _agent_location' = d.val
              /\ _target_location' = d.val
              /\ np_random' = d.rng
              /\ agent_id' = a
              /\ target_id' = a
              /\ heap' = Tidy([heap EXCEPT ![a] = d.val],
                              Refs(held_ids) \cup {a})
    /\ pc' = "reset_loop"
    /\ call' = [NoCall EXCEPT !.op = "reset", !.seed = seed,
                               !.seed_seen = SeedSeen(seed_log, seed)]
    /\ ret' = NoRet
    /\ obs_ids' = <<>>
    /\ UNCHANGED <<size, reset_returned, seed_log, held_ids>>

\* line 78 raising for a seed the library refuses: nothing is assigned
reset_Error(seed) ==
    /\ pc = "idle"
    /\ ~ seed_valid(seed)
    /\ call' = [NoCall EXCEPT !.op = "reset", !.seed = seed]
    /\ ret' = [NoRet EXCEPT !.op = "reset", !.err = "Error"]
    /\ obs_ids' = <<>>
    /\ UNCHANGED <<size, _agent_location, _target_location, np_random, pc,
                   reset_returned, seed_log, heap, agent_id, target_id,
                   held_ids>>

\* line 85: the loop condition
loop_cond_once(target, agent, draws) == draws = 0

loop_cond_self(target, agent, draws) == array_equal(target, target)

loop_cond(target, agent, draws) == array_equal(target, agent)

\* lines 85-88: one iteration of the rejection loop
reset_draw ==
    /\ pc = "reset_loop"
    /\ loop_cond(_target_location, _agent_location, call.draws)
    /\ \E d \in integers(np_random, size) :
          LET t == Fresh(Refs(held_ids) \cup {agent_id})
          IN  /\ _target_location' = d.val
              /\ np_random' = d.rng
              /\ target_id' = t
              /\ heap' = Tidy([heap EXCEPT ![t] = d.val],
                              Refs(held_ids) \cup {agent_id, t})
    /\ call' = [call EXCEPT !.draws = IF @ < DrawsCap THEN @ + 1 ELSE @]
    /\ UNCHANGED <<size, _agent_location, pc, ret, reset_returned, seed_log,
                   agent_id, obs_ids, held_ids>>

\* the result of the first reset(seed) to return, per seed
LogResult(log, seed, res) ==
    IF seed = <<>> THEN log
    ELSE [log EXCEPT ![seed[1]] = IF @ = <<>> THEN <<res>> ELSE @]

\* lines 85, 90-93: the loop exits, observation and info are returned
reset_return ==
    /\ pc = "reset_loop"
    /\ ~ loop_cond(_target_location, _agent_location, call.draws)
    /\ pc' = "idle"
    /\ ret' = [NoRet EXCEPT !.op = "reset",
                 !.obs = _get_obs(_agent_location, _target_location),
                 !.info = _get_info(_agent_location, _target_location)]
    /\ reset_returned' = TRUE
    /\ seed_log' = LogResult(seed_log, call.seed,
                             <<_agent_location, _target_location>>)
    /\ obs_ids' = <<agent_id, target_id>>
    /\ UNCHANGED <<size, _agent_location, _target_location, np_random, call,
                   heap, agent_id, target_id, held_ids>>

(* -------------------------------- step -------------------------------- *)
\* lines 125-138 for an action the table has: the positions afterwards and
\* the tuple returned
step_post_moves_target(agent, target, n, action) ==
    LET direction == _action_to_direction[action]
        moved == np_clip(<<agent[1] + direction[1], agent[2] + direction[2]>>,
                         0, n - 1)
        goal == np_clip(<<target[1] + direction[1], target[2] + direction[2]>>,
                         0, n - 1)
        terminated == array_equal(moved, goal)
    IN  [agent |-> moved, target |-> goal,
         ret |-> [NoRet EXCEPT !.op = "step",
                    !.obs = _get_obs(moved, goal),
                    !.reward = IF terminated THEN 1 ELSE 0,
                    !.terminated = terminated,
                    !.truncated = FALSE,
                    !.info = _get_info(moved, goal)]]

\* truncated set together with terminated
step_post_truncates(agent, target, n, action) ==
    LET direction == _action_to_direction[action]
        moved == np_clip(<<agent[1] + direction[1], agent[2] + direction[2]>>,
                         0, n - 1)
        terminated == array_equal(moved, target)
    IN  [agent |-> moved, target |-> target,
         ret |-> [NoRet EXCEPT !.op = "step",
                    !.obs = _get_obs(moved, target),
                    !.reward = IF terminated THEN 1 ELSE 0,
                    !.terminated = terminated,
                    !.truncated = terminated,
                    !.info = _get_info(moved, target)]]

\* an agent on the target stays there: the episode is absorbing once done
step_post_absorbing(agent, target, n, action) ==
    LET direction == _action_to_direction[action]
        moved == IF array_equal(agent, target) THEN agent
                 ELSE np_clip(<<agent[1] + direction[1],
                                agent[2] + direction[2]>>, 0, n - 1)
        terminated == array_equal(moved, target)
    IN  [agent |-> moved, target |-> target,
         ret |-> [NoRet EXCEPT !.op = "step",
                    !.obs = _get_obs(moved, target),
                    !.reward = IF terminated THEN 1 ELSE 0,
                    !.terminated = terminated,
                    !.truncated = FALSE,
                    !.info = _get_info(moved, target)]]

step_post(agent, target, n, action) ==
    LET direction == _action_to_direction[action]
        moved == np_clip(<<agent[1] + direction[1], agent[2] + direction[2]>>,
                         0, n - 1)
        terminated == array_equal(moved, target)
    IN  [agent |-> moved, target |-> target,
         ret |-> [NoRet EXCEPT !.op = "step",
                    !.obs = _get_obs(moved, target),
                    !.reward = IF terminated THEN 1 ELSE 0,
                    !.terminated = terminated,
                    !.truncated = FALSE,
                    !.info = _get_info(moved, target)]]

\* line 125 for a key the dict does not have: KeyError, nothing assigned
step_KeyError(action) ==
    /\ pc = "idle"
    /\ action \notin DOMAIN _action_to_direction
    /\ call' = [NoCall EXCEPT !.op = "step", !.action = action,
                               !.agent_before = _agent_location]
    /\ ret' = [NoRet EXCEPT !.op = "step", !.err = "KeyError"]
    /\ obs_ids' = <<>>
    /\ UNCHANGED <<size, _agent_location, _target_location, np_random, pc,
                   reset_returned, seed_log, heap, agent_id, target_id,
                   held_ids>>

\* step(action) returning normally; there is no check that reset has run
step_ok(action) ==
    /\ pc = "idle"
    /\ action \in DOMAIN _action_to_direction
    /\ LET post == step_post(_agent_location, _target_location, size, action)
           a == clip_result_id(agent_id, Refs(held_ids) \cup {target_id})
       IN  /\ _agent_location' = post.agent
           /\ _target_location' = post.target
           /\ ret' = post.ret
           /\ agent_id' = a
           /\ heap' = Tidy([heap EXCEPT ![a] = post.agent],
                           Refs(held_ids) \cup {a, target_id})
           /\ obs_ids' = <<a, target_id>>
    /\ call' = [NoCall EXCEPT !.op = "step", !.action = action,
                               !.agent_before = _agent_location]
    /\ UNCHANGED <<size, np_random, pc, reset_returned, seed_log, target_id,
                   held_ids>>

step(action) == step_ok(action) \/ step_KeyError(action)

(* ---------------------------- specification --------------------------- *)
Next ==
    \/ __init__
    \/ \E seed \in SeedInputs : reset_begin(seed)
    \/ \E seed \in SeedInputs : reset_Error(seed)
    \/ reset_draw
    \/ reset_return
    \/ \E action \in ActionInputs : step_ok(action)
    \/ \E action \in ActionInputs : step_KeyError(action)

Spec == Init /\ [][Next]_vars

\* the caller keeps the observation of the tuple just returned, _get_obs
\* having put the two field arrays themselves into it
keep_observation ==
    /\ pc = "idle"
    /\ obs_ids # <<>>
    /\ held_ids # obs_ids
    /\ held_ids' = obs_ids
    /\ heap' = Tidy(heap, Refs(obs_ids) \cup {agent_id, target_id})
    /\ UNCHANGED <<size, _agent_location, _target_location, np_random, pc,
                   call, ret, reset_returned, seed_log, agent_id, target_id,
                   obs_ids>>

\* the calls that create or bind arrays (the failing calls assign nothing),
\* on an entropy-created generator, with a caller that may keep any
\* observation it gets
AliasInit == Init /\ size <= AliasMaxSize

AliasNext ==
    \/ __init__
    \/ reset_begin(<<>>)
    \/ reset_draw
    \/ reset_return
    \/ \E action \in Actions : step_ok(action)
    \/ keep_observation

AliasSpec == AliasInit /\ [][AliasNext]_vars

\* a loop iteration whose draw is a cell other than the agent's
reset_draw_distinct == reset_draw /\ _target_location' # _agent_location

\* a running reset keeps running (the program is sequential), and a cell
\* other than the agent's is eventually drawn when one can be
FairSpec ==
    /\ Spec
    /\ WF_vars(reset_draw)
    /\ WF_vars(reset_return)
    /\ WF_vars(reset_draw_distinct)

(* ------------------------------ properties ---------------------------- *)
InGrid(p) == p[1] \in 0..(size - 1) /\ p[2] \in 0..(size - 1)

\* a transition that is a call of step with the argument a
StepCalled(a) ==
    /\ pc = "idle"
    /\ pc' = "idle"
    /\ call'.op = "step"
    /\ call'.action = a
    /\ ret'.op = "step"

\* C1: for size >= 2, once a reset has returned on the instance, both
\* coordinates of the agent and of the target are in 0..size-1 in every
\* state (after the reset, after every step, and inside any later reset).
C1_Bounds ==
    (size >= 2 /\ reset_returned) =>
        InGrid(_agent_location) /\ InGrid(_target_location)

\* C1 witness: after a reset, a step towards the far wall was clamped there
C1_Witness ==
    /\ size >= 2
    /\ reset_returned
    /\ ret.op = "step"
    /\ ret.err = "none"
    /\ call.action = 0
    /\ _agent_location[1] = size - 1

\* C2: for size >= 2, in the state in which reset returns, the agent and the
\* target differ in at least one coordinate, and so do the two positions of
\* the observation returned.
C2_NonCoincidence ==
    (size >= 2 /\ ret.op = "reset" /\ ret.err = "none") =>
        /\ _agent_location[1] # _target_location[1]
             \/ _agent_location[2] # _target_location[2]
        /\ ret.obs.agent # ret.obs.target

\* C2 witness: a reset returned after a draw equal to the agent was rejected
C2_Witness ==
    /\ size >= 2
    /\ ret.op = "reset"
    /\ call.draws >= 2

\* C3: a call of step, with any argument, leaves target_location as it was.
C3_TargetFrame ==
    [][\A a \in ActionInputs : StepCalled(a) =>
          _target_location' = _target_location]_vars

\* C3 witness: after a reset, a step moved the agent
C3_Witness ==
    /\ reset_returned
    /\ ret.op = "step"
    /\ ret.err = "none"
    /\ ret.info.distance >= 2
    /\ InGrid(_target_location)

\* C4: a step with an action in 0..3 returns terminated = TRUE exactly when
\* the agent after the move equals the target in both coordinates, and
\* reward 1 when terminated and 0 otherwise.
C4_TerminatedReward ==
    (ret.op = "step" /\ ret.err = "none") =>
        /\ ret.terminated <=>
              (/\ _agent_location[1] = _target_location[1]
               /\ _agent_location[2] = _target_location[2])
        /\ ret.terminated => ret.reward = 1
        /\ ~ ret.terminated => ret.reward = 0

\* C4 witness: a step reached the target
C4_Witness ==
    /\ ret.op = "step"
    /\ ret.terminated
    /\ ret.reward = 1
    /\ _agent_location = _target_location

\* the coordinate c of position p after moving by d, saturating at the walls
Saturate(p, d, c) ==
    IF p[c] + d[c] < 0 THEN 0
    ELSE IF p[c] + d[c] > size - 1 THEN size - 1
    ELSE p[c] + d[c]

\* C5: a step with an action in 0..3 puts the agent at the old position plus
\* the action's direction, each coordinate saturating at 0 and size-1, and
\* the coordinate the action does not address keeps its value.
C5_MoveClamp ==
    [][\A a \in Actions : StepCalled(a) =>
          LET d == CASE a = 0 -> <<1, 0>> [] a = 1 -> <<0, 1>>
                     [] a = 2 -> <<-1, 0>> [] a = 3 -> <<0, -1>>
              other == IF a \in {0, 2} THEN 2 ELSE 1
          IN  /\ _agent_location'[1] = Saturate(_agent_location, d, 1)
              /\ _agent_location'[2] = Saturate(_agent_location, d, 2)
              /\ _agent_location'[other] = _agent_location[other]]_vars

\* the same for steps taken after a reset has returned
C5_MoveClampAfterReset ==
    [][\A a \in Actions : (reset_returned /\ StepCalled(a)) =>
          LET d == CASE a = 0 -> <<1, 0>> [] a = 1 -> <<0, 1>>
                     [] a = 2 -> <<-1, 0>> [] a = 3 -> <<0, -1>>
              other == IF a \in {0, 2} THEN 2 ELSE 1
          IN  /\ _agent_location'[1] = Saturate(_agent_location, d, 1)
              /\ _agent_location'[2] = Saturate(_agent_location, d, 2)
              /\ _agent_location'[other] = _agent_location[other]]_vars

\* the error a step with an unknown action raises: the dict lookup's own
InvalidAction == "KeyError"

\* C6: a step with an action outside 0..3 fails with the invalid-action
\* error, returns nothing, and leaves both positions as they were.
C6_InvalidAction ==
    [][\A a \in ActionInputs \ Actions : StepCalled(a) =>
          /\ ret'.err = InvalidAction
          /\ _agent_location' = _agent_location
          /\ _target_location' = _target_location]_vars

\* C6 witness: after a reset, a step with an unknown action has failed
C6_Witness ==
    /\ reset_returned
    /\ call.op = "step"
    /\ call.action \notin Actions
    /\ ret.err = InvalidAction
    /\ InGrid(_agent_location)

\* C7: a step with an action in 0..3 on an instance on which no reset has
\* returned fails with EnvironmentNotInitialized and leaves both positions
\* at the sentinel.
C7_StepBeforeReset ==
    (call.op = "step" /\ call.action \in Actions /\ ~ reset_returned) =>
        /\ ret.err = "EnvironmentNotInitialized"
        /\ _agent_location = Sentinel
        /\ _target_location = Sentinel

\* C8: no environment is constructed with size < 2.
C8_SizeAtLeastTwo == size >= 2

\* C9: for a fixed size, every reset(seed) with the same seed ends with the
\* same agent and target positions as the first reset with that seed,
\* whatever instance it runs on and whatever was called before.
C9_SeedDeterminism ==
    \A s \in Seeds :
        (ret.op = "reset" /\ ret.err = "none" /\ call.seed = <<s>>
            /\ seed_log[s] # <<>>) =>
        <<_agent_location, _target_location>> = seed_log[s][1]

\* C9 witness: a reset with a seed already used before has just returned
C9_Witness ==
    \E s \in Seeds :
        /\ call.seed_seen
        /\ seed_log[s] # <<>>
        /\ ret.op = "reset"
        /\ ret.err = "none"
        /\ call.seed = <<s>>
        /\ np_random.kind = "seeded"
        /\ size >= 2

\* C10: in every tuple reset or step returns, info.distance is the sum of the
\* absolute coordinate differences of the observation's agent and target; it
\* is never negative, and in a step's tuple it is 0 exactly when terminated.
C10_Distance ==
    (ret.op \in {"reset", "step"} /\ ret.err = "none") =>
        /\ ret.info.distance =
              Abs(ret.obs.agent[1] - ret.obs.target[1])
                + Abs(ret.obs.agent[2] - ret.obs.target[2])
        /\ ret.info.distance >= 0
        /\ ret.op = "step" => (ret.info.distance = 0 <=> ret.terminated)

\* C10 witness: a step returned with the agent diagonally off the target
C10_Witness ==
    /\ ret.op = "step"
    /\ ret.err = "none"
    /\ reset_returned
    /\ ret.obs.agent[1] # ret.obs.target[1]
    /\ ret.obs.agent[2] # ret.obs.target[2]

\* C11: every step with an action in 0..3 returns truncated = FALSE, also
\* when it returns terminated = TRUE and after any number of earlier steps.
C11_NeverTruncated ==
    (ret.op = "step" /\ ret.err = "none") => ret.truncated = FALSE

\* C11 witness: a step taken from the target cell came back to it, so at
\* least two steps have run, and the tuple is terminated and not truncated
C11_Witness ==
    /\ ret.op = "step"
    /\ ret.err = "none"
    /\ ret.terminated
    /\ ~ ret.truncated
    /\ call.agent_before = _target_location

\* the last tuple returned is a step's with terminated = TRUE
Done == ret.op = "step" /\ ret.err = "none" /\ ret.terminated

\* C12: after a step has returned terminated = TRUE, a step with any action
\* in 0..3 can be taken, returns no error, moves the agent by the ordinary
\* saturating rule, leaves the target alone, and returns terminated and
\* reward by the ordinary rule (FALSE and 0 off the target, TRUE and 1 on it).
C12_NoLockOut ==
    /\ [](Done => \A a \in Actions : ENABLED step_ok(a))
    /\ [][\A a \in Actions : (Done /\ StepCalled(a)) =>
             LET d == CASE a = 0 -> <<1, 0>> [] a = 1 -> <<0, 1>>
                        [] a = 2 -> <<-1, 0>> [] a = 3 -> <<0, -1>>
             IN  /\ ret'.err = "none"
                 /\ _agent_location'[1] = Saturate(_agent_location, d, 1)
                 /\ _agent_location'[2] = Saturate(_agent_location, d, 2)
                 /\ _target_location' = _target_location
                 /\ ret'.terminated <=> (_agent_location' = _target_location')
                 /\ ret'.reward = IF ret'.terminated THEN 1 ELSE 0]_vars

\* C12 witness: a step taken from the target cell left it and returned
\* terminated = FALSE and reward 0
C12_Witness ==
    /\ reset_returned
    /\ ret.op = "step"
    /\ ret.err = "none"
    /\ call.agent_before = _target_location
    /\ _agent_location # _target_location
    /\ ~ ret.terminated
    /\ ret.reward = 0

\* the error a reset with a refused seed raises: gymnasium.error.Error
InvalidSeed == "Error"

\* a transition that is a call of reset with the seed argument sd
ResetCalled(sd) ==
    /\ pc = "idle"
    /\ call'.op = "reset"
    /\ call'.seed = sd

\* C14: a reset with a seed the library refuses (a negative integer) fails
\* with the invalid-seed error at once and leaves agent_location and
\* target_location as they were before the call.
C14_InvalidSeed ==
    [][\A sd \in SeedInputs \ SeedArgs : ResetCalled(sd) =>
          /\ ret'.op = "reset"
          /\ ret'.err = InvalidSeed
          /\ pc' = "idle"
          /\ _agent_location' = _agent_location
          /\ _target_location' = _target_location]_vars

\* C14 witness: on an instance with positions in the grid, a reset with a
\* negative seed has failed and the positions are still in the grid
C14_Witness ==
    /\ reset_returned
    /\ call.op = "reset"
    /\ call.seed \in SeedInputs \ SeedArgs
    /\ ret.err = InvalidSeed
    /\ InGrid(_agent_location)
    /\ InGrid(_target_location)

\* C13: for size >= 2 a reset that has entered its loop eventually returns,
\* and a reset that returns has run the loop body at least once, so the
\* target it returns is a draw of its own.
C13_ResetReturns ==
    /\ [](ret.op = "reset" /\ ret.err = "none" => call.draws >= 1)
    /\ (pc = "reset_loop" /\ size >= 2) ~> (pc = "idle")

\* C13 witness: a reset on a seeded generator returned after the loop body
\* ran more than once
C13_Witness ==
    /\ size >= 2
    /\ ret.op = "reset"
    /\ ret.err = "none"
    /\ call.draws >= 2
    /\ np_random.kind = "seeded"
    /\ pc = "idle"

\* sum of the absolute coordinate differences of two positions
Dist(p, q) == Abs(p[1] - q[1]) + Abs(p[2] - q[2])

\* the least number of steps with actions in 0..3 that lead from one of the
\* agent positions P, reached by k steps already, onto the target; -1 when
\* more than 2 * size steps do not get there
RECURSIVE StepsToTarget(_, _)
StepsToTarget(P, k) ==
    IF _target_location \in P THEN k
    ELSE IF k > 2 * size THEN -1
    ELSE StepsToTarget({step_post(p, _target_location, size, a).agent :
                           p \in P, a \in Actions}, k + 1)

\* C15: after a reset has returned, (1) a step changes the distance between
\* agent and target by -1, 0 or +1, and by 0 only when the agent did not move;
\* (2) at distance d >= 1 some action moves the agent and lowers the distance
\* by exactly 1; (3) the least number of steps that reach the target cell
\* is d; (4) a step from distance 1 onto the target returns terminated = TRUE
\* and reward 1.
C15_DistanceSteps ==
    /\ []((reset_returned /\ pc = "idle") =>
            LET d == Dist(_agent_location, _target_location)
            IN  /\ d >= 1 =>
                    \E a \in Actions :
                        LET nxt == step_post(_agent_location, _target_location,
                                             size, a).agent
                        IN  /\ nxt # _agent_location
                            /\ Dist(nxt, _target_location) = d - 1
                /\ StepsToTarget({_agent_location}, 0) = d)
    /\ [][\A a \in Actions : (reset_returned /\ StepCalled(a)) =>
             LET d0 == Dist(_agent_location, _target_location)
                 d1 == Dist(_agent_location', _target_location')
             IN  /\ d1 - d0 \in {-1, 0, 1}
                 /\ d1 = d0 => _agent_location' = _agent_location
                 /\ (d0 = 1 /\ d1 = 0) =>
                        (ret'.terminated /\ ret'.reward = 1)]_vars

\* C15 witness: with the target at (3,2), action 0 taken from (2,2) returned
\* terminated = TRUE and reward 1
C15_Witness ==
    /\ reset_returned
    /\ ret.op = "step"
    /\ ret.err = "none"
    /\ call.action = 0
    /\ call.agent_before = <<2, 2>>
    /\ _target_location = <<3, 2>>
    /\ _agent_location = <<3, 2>>
    /\ ret.terminated
    /\ ret.reward = 1

\* C16: the arrays of an observation a caller has kept keep their contents
\* through every later step and reset, and the two arrays of a returned
\* observation are never one and the same object.
C16_StableSnapshot ==
    /\ [](obs_ids # <<>> => obs_ids[1] # obs_ids[2])
    /\ [][(held_ids # <<>> /\ held_ids' = held_ids) =>
             /\ heap'[held_ids[1]] = heap[held_ids[1]]
             /\ heap'[held_ids[2]] = heap[held_ids[2]]]_vars

\* C16 witness: a caller holds an observation from before a reset and a
\* step; both of its arrays differ, in identity and in contents, from what
\* the fields are bound to now
C16_Witness ==
    /\ held_ids # <<>>
    /\ reset_returned
    /\ ret.op = "step"
    /\ ret.err = "none"
    /\ held_ids[1] # agent_id
    /\ held_ids[2] # target_id
    /\ heap[held_ids[1]] # _agent_location
    /\ heap[held_ids[2]] # _target_location
    /\ InGrid(heap[held_ids[1]])
    /\ InGrid(heap[held_ids[2]])

====
